---- MODULE Spec2Model ----
(***************************************************************************)
(* The Fed LBR banks dashboard (src/app.py) as a state machine: one run of *)
(* the Streamlit script, from the parsed tables of the fetched page to the *)
(* rendered panels.                                                        *)
(*                                                                         *)
(* Text is modelled as a sequence of one-character strings, so substring   *)
(* tests, case folding, stripping and number parsing are computed the way  *)
(* the code computes them.  A DataFrame is its column names plus its rows, *)
(* run-length encoded: a run is n consecutive rows holding the same cells. *)
(***************************************************************************)
EXTENDS Integers, Sequences, FiniteSets, TLC

VARIABLES pc, tables, target, cols, df, top_n_slider, assets_slider, filtered, shown

vars == <<pc, tables, target, cols, df, top_n_slider, assets_slider, filtered, shown>>

(***************************************************************************)
(* Bounds of the model.                                                    *)
(***************************************************************************)
\* tables in the parsed page
MaxTables == 2
\* runs of equal rows in a table whose cells vary
MaxRuns == 2
\* characters in an arbitrary magnitude cell text
MaxLen == 3

(***************************************************************************)
(* Program constants.                                                      *)
(***************************************************************************)
\* st.slider("Top N banks", 10, min(200, len(df)), 50)
TopNMin == 10
TopNCap == 200
TopNDefault == 50

(***************************************************************************)
(* Text.                                                                   *)
(***************************************************************************)
UpperAZ == <<"A","B","C","D","E","F","G","H","I","J","K","L","M","N","O","P","Q","R","S","T","U","V","W","X","Y","Z">>
LowerAZ == <<"a","b","c","d","e","f","g","h","i","j","k","l","m","n","o","p","q","r","s","t","u","v","w","x","y","z">>
Digits == {"0","1","2","3","4","5","6","7","8","9"}

\* str.lower / str.upper, one character
ToLower == [c \in {UpperAZ[i] : i \in 1..26} |-> LowerAZ[CHOOSE i \in 1..26 : UpperAZ[i] = c]]
ToUpper == [c \in {LowerAZ[i] : i \in 1..26} |-> UpperAZ[CHOOSE i \in 1..26 : LowerAZ[i] = c]]
LowerChar(c) == IF c \in DOMAIN ToLower THEN ToLower[c] ELSE c
UpperChar(c) == IF c \in DOMAIN ToUpper THEN ToUpper[c] ELSE c
\* a sequence given as a function, as the tuple of its elements
Tup(f, n) == SubSeq(f, 1, n)
Lower(s) == Tup([i \in 1..Len(s) |-> LowerChar(s[i])], Len(s))
Upper(s) == Tup([i \in 1..Len(s) |-> UpperChar(s[i])], Len(s))

IsSpace(c) == c = " "
IsUpperAZ(c) == c \in DOMAIN ToLower

\* str.strip()
Strip(s) ==
  LET keep == {i \in 1..Len(s) : ~IsSpace(s[i])}
  IN IF keep = {} THEN <<>>
     ELSE LET lo == CHOOSE i \in keep : \A j \in keep : i <= j
              hi == CHOOSE i \in keep : \A j \in keep : j <= i
          IN SubSeq(s, lo, hi)

\* Python's `p in s` on strings
Contains(s, p) ==
  \E i \in 0..(Len(s) - Len(p)) : SubSeq(s, i + 1, i + Len(p)) = p

(* substrings the code searches headers for, and the names it gives columns *)
p_rank == <<"r","a","n","k">>
p_consol == <<"c","o","n","s","o","l">>
p_assets == <<"a","s","s","e","t","s">>
p_location == <<"l","o","c","a","t","i","o","n">>
p_charter == <<"c","h","a","r","t","e","r">>
p_consol_assets == <<"c","o","n","s","o","l"," ","a","s","s","e","t","s">>
p_consolidated_assets == <<"c","o","n","s","o","l","i","d","a","t","e","d"," ","a","s","s","e","t","s">>
p_domestic_assets == <<"d","o","m","e","s","t","i","c"," ","a","s","s","e","t","s">>
p_IBF == <<"I","B","F">>
n_Bank == <<"B","a","n","k"," ","/"," ","H","o","l","d","i","n","g"," ","C","o","m","p","a","n","y">>
n_Rank == <<"N","a","t","i","o","n","a","l"," ","R","a","n","k">>
n_Location == <<"L","o","c","a","t","i","o","n">>
n_Charter == <<"C","h","a","r","t","e","r">>
n_Assets == <<"C","o","n","s","o","l","i","d","a","t","e","d"," ","A","s","s","e","t","s"," ","(","M","i","l"," ","$",")">>
n_DomAssets == <<"D","o","m","e","s","t","i","c"," ","A","s","s","e","t","s"," ","(","M","i","l"," ","$",")">>
n_IBF == <<"I","B","F">>
n_State == <<"S","t","a","t","e">>
s_All == <<"A","l","l">>
c_nan == <<"n","a","n">>

(* headers and cell texts the modelled pages are built from *)
h_BankName == <<"B","a","n","k"," ","N","a","m","e">>
h_NatlRank == <<"N","a","t","'","l"," ","R","a","n","k">>
h_BankLocation == <<"B","a","n","k"," ","L","o","c","a","t","i","o","n">>
h_ConsolAssetsMil == <<"C","o","n","s","o","l"," ","A","s","s","e","t","s"," ","(","M","i","l"," ","$",")">>
h_Rank == <<"R","a","n","k">>
h_ConsolAssets == <<"C","o","n","s","o","l"," ","A","s","s","e","t","s">>
h_TotalAssets == <<"T","o","t","a","l"," ","A","s","s","e","t","s">>
h_Location == <<"L","o","c","a","t","i","o","n">>
h_Notes == <<"N","o","t","e","s">>
h_Charter == <<"C","h","a","r","t","e","r">>
h_IBF == <<" ","I","B","F"," ">>
h_ConsolLiabilities == <<"C","o","n","s","o","l"," ","L","i","a","b","i","l","i","t","i","e","s">>
h_BankRank == <<"B","a","n","k"," ","R","a","n","k">>
h_DomesticAssets == <<"D","o","m","e","s","t","i","c"," ","A","s","s","e","t","s">>
h_Asset == <<"A","s","s","e","t">>
c_Chase == <<"C","H","A","S","E"," ","B","K">>
c_Blank == <<" "," ">>
c_Amount == <<"3",",","8","1","3",",","4","3","1">>
c_Dash == <<"-">>
c_Zero == <<"0">>
c_Columbus == <<"C","O","L","U","M","B","U","S",","," ","O","H">>
c_London == <<"L","O","N","D","O","N">>
c_One == <<"1">>
c_Two == <<"2">>
c_NAT == <<"N","A","T">>
c_Y == <<"Y">>
c_N == <<"N">>
c_Text == <<"x">>
c_Half == <<"1","2",".","5">>
s_chase == <<"c","h","a","s","e">>

(***************************************************************************)
(* Cell values: a text, a number m / 10^e (as pd.to_numeric produces; m and *)
(* e are kept in lowest form so that equal numbers are equal values), NaN,  *)
(* or None.                                                                 *)
(***************************************************************************)
Str(s) == [k |-> "str", s |-> s, m |-> 0, e |-> 0]
RECURSIVE Num(_, _)
Num(m, e) ==
  IF e > 0 /\ m % 10 = 0 THEN Num(m \div 10, e - 1)
  ELSE [k |-> "num", s |-> <<>>, m |-> m, e |-> e]
NaN == [k |-> "nan", s |-> <<>>, m |-> 0, e |-> 0]
None == [k |-> "none", s |-> <<>>, m |-> 0, e |-> 0]

\* pd.notna / Series.notna: None and NaN are both missing
NotNa(v) == v.k \in {"str", "num"}

\* Series.astype(str) on the values the model holds as text or missing
AsStr(v) ==
  CASE v.k = "str" -> v.s
    [] v.k = "nan" -> c_nan

RECURSIVE Pow10(_)
Pow10(e) == IF e = 0 THEN 1 ELSE 10 * Pow10(e - 1)

\* a <= b on numbers
NumLe(a, b) == a.m * Pow10(b.e) <= b.m * Pow10(a.e)

(***************************************************************************)
(* Tables.                                                                 *)
(***************************************************************************)
RECURSIVE SumN(_)
SumN(rows) == IF rows = <<>> THEN 0 ELSE Head(rows).n + SumN(Tail(rows))

\* DataFrame.shape[0] and len(df)
NRows(t) == SumN(t.rows)
\* DataFrame.shape[1]
NCols(t) == Len(t.columns)

\* position of the column named c, 0 when there is none (`c in df.columns`)
ColIdx(columns, c) ==
  IF \E i \in 1..Len(columns) : columns[i] = c
  THEN CHOOSE i \in 1..Len(columns) : columns[i] = c /\ \A j \in 1..(i - 1) : columns[j] # c
  ELSE 0
HasCol(t, c) == ColIdx(t.columns, c) # 0

(***************************************************************************)
(* load_lbr_df: picking the ranked bank table.                             *)
(***************************************************************************)
\* cols = [str(c).lower() for c in t.columns]
LowerCols(t) == Tup([i \in 1..NCols(t) |-> Lower(t.columns[i])], NCols(t))

\* any("rank" in c ...) and any(("consol" in c) or ("assets" in c) ...)
LooksRanked(t) ==
  LET lc == LowerCols(t)
  IN /\ \E i \in 1..Len(lc) : Contains(lc[i], p_rank)
     /\ \E i \in 1..Len(lc) : Contains(lc[i], p_consol) \/ Contains(lc[i], p_assets)

\* the key of max(tables, key=lambda x: x.shape[0] * x.shape[1])
CellCount(t) == NRows(t) * NCols(t)

\* the table the for loop breaks on: the first ranked one
FirstRanked(tbls) ==
  CHOOSE i \in 1..Len(tbls) :
    LooksRanked(tbls[i]) /\ \A j \in 1..(i - 1) : ~LooksRanked(tbls[j])

\* max() as a loop that keeps the later of two equal candidates
MaxByCellsLast(tbls) ==
  CHOOSE i \in 1..Len(tbls) :
    /\ \A j \in 1..Len(tbls) : CellCount(tbls[j]) <= CellCount(tbls[i])
    /\ \A j \in (i + 1)..Len(tbls) : CellCount(tbls[j]) < CellCount(tbls[i])

\* Python's max returns the first of the maximal elements
MaxByCells(tbls) ==
  CHOOSE i \in 1..Len(tbls) :
    /\ \A j \in 1..Len(tbls) : CellCount(tbls[j]) <= CellCount(tbls[i])
    /\ \A j \in 1..(i - 1) : CellCount(tbls[j]) < CellCount(tbls[i])

\* the selection loop without its break: the last ranked table wins
PickTargetNoBreak(tbls) ==
  IF \E i \in 1..Len(tbls) : LooksRanked(tbls[i])
  THEN CHOOSE i \in 1..Len(tbls) :
         LooksRanked(tbls[i]) /\ \A j \in (i + 1)..Len(tbls) : ~LooksRanked(tbls[j])
  ELSE MaxByCells(tbls)

\* the index in tbls of the table bound to `target`
PickTarget(tbls) ==
  IF \E i \in 1..Len(tbls) : LooksRanked(tbls[i])
  THEN FirstRanked(tbls)
  ELSE MaxByCells(tbls)

\* pd.read_html raises ValueError when the page holds no table (and max() of
\* an empty list would raise it as well)
LoadRaises(tbls) == tbls = <<>>

\* the except branch without st.stop(): the script runs on
AfterLoadErrorRunsOn == "loaded"

\* the except branch ends the run with st.stop()
AfterLoadError == "stopped"

(***************************************************************************)
(* The pages the model runs on.                                            *)
(***************************************************************************)
HeaderLists ==
  { <<h_BankName, h_NatlRank, h_BankLocation, h_ConsolAssetsMil>>,
    <<h_Rank, h_ConsolAssets>>,
    <<h_Rank, h_TotalAssets>>,
    <<h_Rank, h_ConsolAssets, h_Location>>,
    <<h_Notes>>,
    <<h_BankName, h_Notes>>,
    <<h_BankName, h_Charter, h_IBF>>,
    <<h_BankName, h_ConsolLiabilities, h_ConsolAssets>>,
    <<h_BankRank, h_ConsolAssets>>,
    <<h_BankName, h_Rank>>,
    <<h_BankName, h_DomesticAssets, h_Location>>,
    <<h_Asset, h_Rank>> }

\* the cell a column holds by default, and the other cells it may hold
DefaultCell(h) ==
  CASE h \in {h_BankName, h_BankRank} -> Str(c_Chase)
    [] h \in {h_NatlRank, h_Rank} -> Str(c_One)
    [] h \in {h_BankLocation, h_Location} -> Str(c_Columbus)
    [] h \in {h_ConsolAssetsMil, h_ConsolAssets, h_TotalAssets, h_ConsolLiabilities} -> Str(c_Amount)
    [] h = h_DomesticAssets -> Str(c_Half)
    [] h = h_Asset -> Str(c_Zero)
    [] h = h_Charter -> Str(c_NAT)
    [] h = h_IBF -> Str(c_Y)
    [] OTHER -> Str(c_Text)
OtherCells(h) ==
  CASE h \in {h_BankName, h_BankRank} -> {Str(c_Blank), NaN}
    [] h \in {h_NatlRank, h_Rank} -> {Str(c_Two), Str(c_Text)}
    [] h \in {h_BankLocation, h_Location} -> {Str(c_London)}
    [] h \in {h_ConsolAssetsMil, h_ConsolAssets} -> {Str(c_Dash), Str(c_Zero)}
    [] h = h_DomesticAssets -> {Str(c_Dash)}
    [] h = h_IBF -> {Str(c_N)}
    [] OTHER -> {}

DefaultRow(hs) == Tup([j \in 1..Len(hs) |-> DefaultCell(hs[j])], Len(hs))
\* the default row, or the default row with one cell replaced
SampleRows(hs) ==
  {DefaultRow(hs)} \cup
  UNION {{[DefaultRow(hs) EXCEPT ![j] = v] : v \in OtherCells(hs[j])} : j \in 1..Len(hs)}

\* row counts of the tables of a several-table page, and the lengths of runs
ShapeRows == {2, 3}
RunLens == {9, 200}

SeqsUpTo(S, n) == UNION {[1..k -> S] : k \in 0..n}

\* a page of up to MaxTables tables that differ in headers and shape
ShapeTables ==
  {[columns |-> hs, rows |-> <<[n |-> r, cells |-> DefaultRow(hs)]>>] :
     hs \in HeaderLists, r \in ShapeRows}
ShapePages == SeqsUpTo(ShapeTables, MaxTables)

\* a page of one table whose rows vary
RowPages ==
  UNION {{<<[columns |-> hs, rows |-> rs]>> :
            rs \in [1..k -> {[n |-> len, cells |-> c] : len \in RunLens, c \in SampleRows(hs)}]} :
         hs \in HeaderLists, k \in 1..MaxRuns}

\* a page of one table with an arbitrary text in its consolidated-assets cell
CellAlphabet == {"7", "0", ",", ".", "-"}
CellPages ==
  {<<[columns |-> <<h_BankName, h_ConsolAssets>>,
      rows |-> <<[n |-> len, cells |-> <<Str(c_Chase), Str(txt)>>]>>]>> :
     len \in RunLens, txt \in SeqsUpTo(CellAlphabet, MaxLen)}

Pages == ShapePages \cup RowPages \cup CellPages

NoTable == [columns |-> <<>>, rows |-> <<>>]
NoCols == [bank |-> None, rank |-> None, loc |-> None, char |-> None,
           assets |-> None, dom_assets |-> None, ibf |-> None]
NoSlider == [min_value |-> 0, max_value |-> 0, value |-> 0]
NoRange == [shown |-> FALSE, min_value |-> NaN, max_value |-> NaN]

Init ==
  /\ pc = "start"
  /\ tables \in Pages
  /\ target = 0
  /\ cols = NoCols
  /\ df = NoTable
  /\ top_n_slider = NoSlider
  /\ assets_slider = NoRange
  /\ filtered = NoTable
  /\ shown = {}

\* lines 108-120: the page is parsed and the ranked table is picked
SelectTarget ==
  /\ pc = "start"
  /\ ~LoadRaises(tables)
  /\ target' = PickTarget(tables)
  /\ pc' = "selected"
  /\ UNCHANGED <<tables, cols, df, top_n_slider, assets_slider, filtered, shown>>

\* lines 186-192: load_lbr_df raised; the notice is shown and the run stops
LoadFailed ==
  /\ pc = "start"
  /\ LoadRaises(tables)
  /\ shown' = {"error", "info", "exception"}
  /\ pc' = AfterLoadError
  /\ UNCHANGED <<tables, target, cols, df, top_n_slider, assets_slider, filtered>>

(***************************************************************************)
(* load_lbr_df: normalising the picked table.                              *)
(***************************************************************************)
\* df = target.copy(); df.columns = [str(c).strip() for c in df.columns]
CopyStripped(t) == [t EXCEPT !.columns = Tup([i \in 1..NCols(t) |-> Strip(t.columns[i])], NCols(t))]

\* find_col: the first column, in column order, whose lower-cased name
\* contains any of the patterns; None when no column does
find_col(columns, patterns) ==
  LET Hit(i) == \E p \in patterns : Contains(Lower(columns[i]), p)
  IN IF \E i \in 1..Len(columns) : Hit(i)
     THEN Str(columns[CHOOSE i \in 1..Len(columns) : Hit(i) /\ \A j \in 1..(i - 1) : ~Hit(j)])
     ELSE None

\* the patterns of col_assets and col_dom_assets
AssetsPatterns == {p_consol_assets, p_consolidated_assets, p_consol}
DomAssetsPatterns == {p_domestic_assets}

\* the loop that sets col_ibf
FindIbf(columns) ==
  LET Hit(i) == Upper(Strip(columns[i])) = p_IBF
  IN IF \E i \in 1..Len(columns) : Hit(i)
     THEN Str(columns[CHOOSE i \in 1..Len(columns) : Hit(i) /\ \A j \in 1..(i - 1) : ~Hit(j)])
     ELSE None

\* lines 132-142
BindCols(columns) ==
  [bank |-> Str(columns[1]),
   rank |-> find_col(columns, {p_rank}),
   loc |-> find_col(columns, {p_location}),
   char |-> find_col(columns, {p_charter}),
   assets |-> find_col(columns, AssetsPatterns),
   dom_assets |-> find_col(columns, DomAssetsPatterns),
   ibf |-> FindIbf(columns)]

\* truth value of a binding: None and the empty name are false
Truthy(c) == c.k = "str" /\ c.s # <<>>

DigitSeq == <<"0","1","2","3","4","5","6","7","8","9">>
DigitVal(c) == (CHOOSE i \in 1..10 : DigitSeq[i] = c) - 1
RECURSIVE ParseDigits(_)
ParseDigits(s) ==
  IF s = <<>> THEN 0
  ELSE 10 * ParseDigits(SubSeq(s, 1, Len(s) - 1)) + DigitVal(s[Len(s)])

\* float parsing of a text made of digits and points: a number when it holds
\* at least one digit and at most one point, NaN otherwise
ParseUnsigned(s) ==
  LET dots == {i \in 1..Len(s) : s[i] = "."}
      IsDig(c) == c \in Digits
      digs == SelectSeq(s, IsDig)
  IN IF /\ \A i \in 1..Len(s) : s[i] \in Digits \/ s[i] = "."
        /\ Cardinality(dots) <= 1
        /\ digs # <<>>
     THEN Num(ParseDigits(digs),
              IF dots = {} THEN 0 ELSE Len(s) - (CHOOSE i \in dots : TRUE))
     ELSE NaN

\* pd.to_numeric(..., errors="coerce") on the values the model holds: plain
\* decimal texts with an optional sign parse, every other text is NaN
to_numeric(v) ==
  CASE v.k = "num" -> v
    [] v.k \in {"nan", "none"} -> NaN
    [] v.k = "str" ->
         LET t == Strip(v.s)
         IN IF t # <<>> /\ t[1] = "-"
            THEN LET u == ParseUnsigned(Tail(t))
                 IN IF u.k = "num" THEN Num(0 - u.m, u.e) ELSE NaN
            ELSE IF t # <<>> /\ t[1] = "+" THEN ParseUnsigned(Tail(t))
            ELSE ParseUnsigned(t)

\* .str.replace(",", "", regex=False).str.replace(r"[^\d\.]", "", regex=True)
StripNonNumeric(s) ==
  LET NotComma(c) == c # ","
      DigitOrDot(c) == c \in Digits \/ c = "."
  IN SelectSeq(SelectSeq(s, NotComma), DigitOrDot)

\* the cleaning with the missing numbers filled with zero
CleanNumericFillZero(v) ==
  LET r == to_numeric(Str(StripNonNumeric(AsStr(v))))
  IN IF r.k = "num" THEN r ELSE Num(0, 0)

\* lines 147-152 on one cell
CleanNumeric(v) == to_numeric(Str(StripNonNumeric(AsStr(v))))

\* df[name] = vals (one value per run), on an existing column or as a new
\* last column
SetCol(d, name, vals) ==
  LET i == ColIdx(d.columns, name)
  IN IF i # 0
     THEN [d EXCEPT !.rows = Tup([r \in 1..Len(d.rows) |->
                                    [d.rows[r] EXCEPT !.cells[i] = vals[r]]],
                                 Len(d.rows))]
     ELSE [columns |-> Append(d.columns, name),
           rows |-> Tup([r \in 1..Len(d.rows) |->
                           [d.rows[r] EXCEPT !.cells = Append(d.rows[r].cells, vals[r])]],
                        Len(d.rows))]

\* the values of the column at position i, one per run
Col(d, i) == Tup([r \in 1..Len(d.rows) |-> d.rows[r].cells[i]], Len(d.rows))

\* one pass of the loop over [col_assets, col_dom_assets]
CleanCol(d, c) ==
  IF Truthy(c) /\ HasCol(d, c.s)
  THEN LET col == Col(d, ColIdx(d.columns, c.s))
       IN SetCol(d, c.s, Tup([r \in 1..Len(col) |-> CleanNumeric(col[r])], Len(col)))
  ELSE d

\* .str.extract(r",\s*([A-Z]{2})\s*$"): the two capitals after the comma that
\* is followed, up to blanks, by nothing else
ExtractState(s) ==
  LET Hit(i) == /\ s[i] = ","
                /\ LET rest == Strip(SubSeq(s, i + 1, Len(s)))
                   IN Len(rest) = 2 /\ IsUpperAZ(rest[1]) /\ IsUpperAZ(rest[2])
  IN IF \E i \in 1..Len(s) : Hit(i)
     THEN Str(Strip(SubSeq(s, (CHOOSE i \in 1..Len(s) : Hit(i)) + 1, Len(s))))
     ELSE NaN

\* lines 155-158
DeriveState(d, c) ==
  IF Truthy(c) /\ HasCol(d, c.s)
  THEN LET col == Col(d, ColIdx(d.columns, c.s))
       IN SetCol(d, n_State, Tup([r \in 1..Len(col) |-> ExtractState(AsStr(col[r]))], Len(col)))
  ELSE SetCol(d, n_State, Tup([r \in 1..Len(d.rows) |-> None], Len(d.rows)))

\* rename_map, as the assignments in the order the code makes them: a later
\* assignment to the same key replaces the earlier one
rename_map(b) ==
  LET One(c, name) == IF Truthy(c) THEN <<<<c.s, name>>>> ELSE <<>>
  IN One(b.bank, n_Bank) \o One(b.rank, n_Rank) \o One(b.loc, n_Location)
     \o One(b.char, n_Charter) \o One(b.assets, n_Assets)
     \o One(b.dom_assets, n_DomAssets) \o One(b.ibf, n_IBF)

\* df.rename(columns=rename_map)
Rename(d, rm) ==
  LET Keys(c) == {i \in 1..Len(rm) : rm[i][1] = c}
      New(c) == IF Keys(c) = {} THEN c
                ELSE rm[CHOOSE i \in Keys(c) : \A j \in Keys(c) : j <= i][2]
  IN [d EXCEPT !.columns = Tup([i \in 1..Len(d.columns) |-> New(d.columns[i])], Len(d.columns))]

\* lines 171-172
RankToNumeric(d) ==
  IF HasCol(d, n_Rank)
  THEN LET col == Col(d, ColIdx(d.columns, n_Rank))
       IN SetCol(d, n_Rank, Tup([r \in 1..Len(col) |-> to_numeric(col[r])], Len(col)))
  ELSE d

\* lines 122-172: the frame load_lbr_df returns for table t.  The Logo and
\* Short Name columns of lines 174-180 are display columns read only by the
\* logo row; they are not part of the modelled frame.
NormalizeTable(t) ==
  LET d0 == CopyStripped(t)
      b == BindCols(d0.columns)
      da == CleanCol(d0, b.assets)
      d1 == CleanCol(da, b.dom_assets)
      d2 == DeriveState(d1, b.loc)
      d3 == Rename(d2, rename_map(b))
  IN RankToNumeric(d3)

\* lines 122-180 on the picked table
Normalize ==
  /\ pc = "selected"
  /\ cols' = BindCols(CopyStripped(tables[target]).columns)
  /\ df' = NormalizeTable(tables[target])
  /\ pc' = "normalized"
  /\ UNCHANGED <<tables, target, top_n_slider, assets_slider, filtered, shown>>

\* line 182 and line 187: the frame is returned and the locals are gone
Return ==
  /\ pc = "normalized"
  /\ tables' = <<>>
  /\ target' = 0
  /\ cols' = NoCols
  /\ pc' = "loaded"
  /\ UNCHANGED <<df, top_n_slider, assets_slider, filtered, shown>>

(***************************************************************************)
(* The sidebar.                                                            *)
(***************************************************************************)
Min(a, b) == IF a <= b THEN a ELSE b

\* the values of column `name`, one per run that holds rows
ColValues(d, name) ==
  LET i == ColIdx(d.columns, name)
  IN {d.rows[r].cells[i] : r \in {q \in 1..Len(d.rows) : d.rows[q].n > 0}}

\* df[name].notna().any()
AnyNotNa(d, name) == \E v \in ColValues(d, name) : NotNa(v)

\* st.slider("Top N banks", 10, min(200, len(df)), 50)
TopNSlider(d) ==
  [min_value |-> TopNMin, max_value |-> Min(TopNCap, NRows(d)), value |-> TopNDefault]

\* st.slider raises StreamlitAPIException unless min_value <= value <= max_value
SliderRaises(w) == ~(w.min_value <= w.value /\ w.value <= w.max_value)

\* Series.min() and Series.max(), which skip NaN
ColMin(d, name) ==
  LET vs == {v \in ColValues(d, name) : NotNa(v)}
  IN CHOOSE v \in vs : \A w \in vs : NumLe(v, w)
ColMax(d, name) ==
  LET vs == {v \in ColValues(d, name) : NotNa(v)}
  IN CHOOSE v \in vs : \A w \in vs : NumLe(w, v)

\* lines 215-225: the range slider exists when the frame has a consolidated
\* assets column with at least one number in it
AssetsSlider(d) ==
  IF HasCol(d, n_Assets) /\ AnyNotNa(d, n_Assets)
  THEN LET a_min == ColMin(d, n_Assets)
           a_max == ColMax(d, n_Assets)
       IN [shown |-> TRUE,
           min_value |-> IF NumLe(Num(0, 0), a_min) THEN a_min ELSE Num(0, 0),
           max_value |-> a_max]
  ELSE NoRange

\* lines 198-225, every widget created
Sidebar ==
  /\ pc = "loaded"
  /\ ~SliderRaises(TopNSlider(df))
  /\ top_n_slider' = TopNSlider(df)
  /\ assets_slider' = AssetsSlider(df)
  /\ pc' = "sidebar"
  /\ UNCHANGED <<tables, target, cols, df, filtered, shown>>

\* lines 198-213: the Top N slider raises, nothing catches it and the run ends
\* with the exception on the page
SidebarRaises ==
  /\ pc = "loaded"
  /\ SliderRaises(TopNSlider(df))
  /\ shown' = shown \cup {"exception"}
  /\ pc' = "crashed"
  /\ UNCHANGED <<tables, target, cols, df, top_n_slider, assets_slider, filtered>>

(***************************************************************************)
(* The filters.                                                            *)
(***************************************************************************)
\* df[mask]: the rows of d whose entry in the boolean mask (one per run) is
\* true
RECURSIVE KeepRuns(_, _)
KeepRuns(rows, mask) ==
  IF rows = <<>> THEN <<>>
  ELSE (IF Head(mask) THEN <<Head(rows)>> ELSE <<>>) \o KeepRuns(Tail(rows), Tail(mask))
Where(d, mask) == [d EXCEPT !.rows = KeepRuns(d.rows, mask)]

\* DataFrame.head(n)
RECURSIVE HeadRuns(_, _)
HeadRuns(rows, n) ==
  IF rows = <<>> \/ n <= 0 THEN <<>>
  ELSE IF Head(rows).n <= n
       THEN <<Head(rows)>> \o HeadRuns(Tail(rows), n - Head(rows).n)
       ELSE <<[Head(rows) EXCEPT !.n = n]>>
head(d, n) == [d EXCEPT !.rows = HeadRuns(d.rows, n)]

\* a before b when sorting column values ascending or descending; NaN is last
\* either way
Before(a, b, ascending) ==
  \/ ~NotNa(b)
  \/ NotNa(a) /\ (IF ascending THEN NumLe(a, b) ELSE NumLe(b, a))

\* sort_values(name): the orders of the runs sorted by the column; the
\* default sort is not stable, so rows with equal keys may come in any order
SortedBy(d, name, ascending) ==
  LET i == ColIdx(d.columns, name)
      n == Len(d.rows)
      perms == {p \in [1..n -> 1..n] : \A a, b \in 1..n : a # b => p[a] # p[b]}
      ok == {p \in perms : \A a \in 1..(n - 1) :
                Before(d.rows[p[a]].cells[i], d.rows[p[a + 1]].cells[i], ascending)}
  IN {[d EXCEPT !.rows = Tup([a \in 1..n |-> d.rows[p[a]]], n)] : p \in ok}

\* the values the user can give the widgets
SearchInputs == {<<>>, s_chase}
StateInputs(d) == {s_All} \cup {v.s : v \in {w \in ColValues(d, n_State) : w.k = "str"}}
CharterInputs(d) ==
  {s_All} \cup (IF HasCol(d, n_Charter)
                THEN {AsStr(v) : v \in {w \in ColValues(d, n_Charter) : NotNa(w)}}
                ELSE {})
IbfInputs(d) == IF HasCol(d, n_IBF) THEN {s_All, c_Y, c_N} ELSE {s_All}
TopNInputs(w) == {w.min_value, w.value, w.max_value}
\* the whole range (the default), or only the largest value
RangeInputs(w) ==
  IF w.shown
  THEN {[set |-> TRUE, lo |-> w.min_value, hi |-> w.max_value],
        [set |-> TRUE, lo |-> w.max_value, hi |-> w.max_value]}
  ELSE {[set |-> FALSE, lo |-> NaN, hi |-> NaN]}

\* line 234 reads the bank column, which raises KeyError when it is missing
SearchRaises(d, search) == Strip(search) # <<>> /\ ~HasCol(d, n_Bank)

\* lines 233-234
BySearch(d, search) ==
  IF Strip(search) # <<>>
  THEN LET col == Col(d, ColIdx(d.columns, n_Bank))
       IN Where(d, Tup([r \in 1..Len(col) |-> Contains(Lower(AsStr(col[r])), Lower(search))],
                       Len(col)))
  ELSE d

\* lines 236-237
ByState(d, state) ==
  IF state # s_All
  THEN LET col == Col(d, ColIdx(d.columns, n_State))
       IN Where(d, Tup([r \in 1..Len(col) |-> col[r] = Str(state)], Len(col)))
  ELSE d

\* lines 239-240
ByCharter(d, charter) ==
  IF charter # s_All /\ HasCol(d, n_Charter)
  THEN LET col == Col(d, ColIdx(d.columns, n_Charter))
       IN Where(d, Tup([r \in 1..Len(col) |-> AsStr(col[r]) = charter], Len(col)))
  ELSE d

\* lines 242-243
ByIbf(d, ibf) ==
  IF ibf # s_All /\ HasCol(d, n_IBF)
  THEN LET col == Col(d, ColIdx(d.columns, n_IBF))
       IN Where(d, Tup([r \in 1..Len(col) |-> Upper(AsStr(col[r])) = ibf], Len(col)))
  ELSE d

\* lines 245-250: a range, once set, drops the rows whose assets are NaN
ByAssets(d, range) ==
  IF range.set /\ HasCol(d, n_Assets)
  THEN LET col == Col(d, ColIdx(d.columns, n_Assets))
       IN Where(d, Tup([r \in 1..Len(col) |->
                          NotNa(col[r]) /\ NumLe(range.lo, col[r]) /\ NumLe(col[r], range.hi)],
                       Len(col)))
  ELSE d

\* lines 252-258: the frames the limit to the top N can produce
TopN(d, top_n) ==
  IF HasCol(d, n_Rank) /\ AnyNotNa(d, n_Rank)
  THEN {head(x, top_n) : x \in SortedBy(d, n_Rank, TRUE)}
  ELSE IF HasCol(d, n_Assets)
  THEN {head(x, top_n) : x \in SortedBy(d, n_Assets, FALSE)}
  ELSE {head(d, top_n)}

\* lines 231-258
ApplyFilters ==
  /\ pc = "sidebar"
  /\ \E search \in SearchInputs, state \in StateInputs(df), charter \in CharterInputs(df),
        ibf \in IbfInputs(df), range \in RangeInputs(assets_slider),
        top_n \in TopNInputs(top_n_slider) :
       /\ ~SearchRaises(df, search)
       /\ filtered' \in TopN(ByAssets(ByIbf(ByCharter(ByState(BySearch(df, search),
                                     state), charter), ibf), range), top_n)
  /\ pc' = "filtered"
  /\ UNCHANGED <<tables, target, cols, df, top_n_slider, assets_slider, shown>>

\* lines 231-234: the search raises KeyError and the run ends
FiltersRaise ==
  /\ pc = "sidebar"
  /\ \E search \in SearchInputs : SearchRaises(df, search)
  /\ shown' = shown \cup {"exception"}
  /\ pc' = "crashed"
  /\ UNCHANGED <<tables, target, cols, df, top_n_slider, assets_slider, filtered>>

(***************************************************************************)
(* The panels.                                                             *)
(***************************************************************************)
\* the condition of lines 289 and 338
AssetsDetected(d) == HasCol(d, n_Assets) /\ AnyNotNa(d, n_Assets)

\* px.bar(..., y="Bank / Holding Company") raises ValueError when the frame
\* has no such column
ChartsRaise(d) == AssetsDetected(d) /\ ~HasCol(d, n_Bank)

\* lines 264-333: the logo row, the summary and the table
LeftPanels(d) ==
  {"logos", "banks_shown", "table"}
  \cup (IF AssetsDetected(d) THEN {"total_assets", "median_assets"} ELSE {})
  \cup (IF NRows(d) > 0 THEN {"selected_bank"} ELSE {})

\* lines 335-362: the charts, or the notice that stands in for them
ChartPanels(d) ==
  IF AssetsDetected(d) THEN {"bar_chart", "histogram"} ELSE {"assets_not_detected"}

\* lines 264-362
Render ==
  /\ pc = "filtered"
  /\ ~ChartsRaise(filtered)
  /\ shown' = shown \cup LeftPanels(filtered) \cup ChartPanels(filtered)
  /\ pc' = "done"
  /\ UNCHANGED <<tables, target, cols, df, top_n_slider, assets_slider, filtered>>

\* lines 264-347: the bar chart raises after the left panels are drawn
RenderRaises ==
  /\ pc = "filtered"
  /\ ChartsRaise(filtered)
  /\ shown' = shown \cup LeftPanels(filtered) \cup {"exception"}
  /\ pc' = "crashed"
  /\ UNCHANGED <<tables, target, cols, df, top_n_slider, assets_slider, filtered>>

Next ==
  \/ SelectTarget
  \/ LoadFailed
  \/ Normalize
  \/ Return
  \/ Sidebar
  \/ SidebarRaises
  \/ ApplyFilters
  \/ FiltersRaise
  \/ Render
  \/ RenderRaises

Spec == Init /\ [][Next]_vars

(***************************************************************************)
(* Properties.                                                             *)
(***************************************************************************)
\* the headers of t are exactly "Rank" and "Consol Assets"
IsRankConsol(t) == {t.columns[j] : j \in 1..NCols(t)} = {h_Rank, h_ConsolAssets}

\* some header of t contains p, ignoring case
AnyHeader(t, p) == \E j \in 1..NCols(t) : Contains(Lower(t.columns[j]), p)

\* t has a rank header and a consol or assets header
RankedHeaders(t) ==
  AnyHeader(t, p_rank) /\ (AnyHeader(t, p_consol) \/ AnyHeader(t, p_assets))

\* C1 as stated: when some table of the page has the headers {"Rank",
\* "Consol Assets"}, the table selection returns is such a table, whatever
\* the other tables are and wherever they stand.
C1_ReturnsRankConsolTable ==
  (pc = "selected" /\ \E i \in 1..Len(tables) : IsRankConsol(tables[i]))
    => IsRankConsol(tables[target])

\* C1 as amended: when some table of the page has the headers {"Rank",
\* "Consol Assets"}, selection returns the first table in input order that
\* has a rank header and a consol or assets header; that is the {"Rank",
\* "Consol Assets"} table itself whenever no table before it has both.
C1_ReturnsFirstRankedTable ==
  (pc = "selected" /\ \E i \in 1..Len(tables) : IsRankConsol(tables[i]))
    => /\ target \in 1..Len(tables)
       /\ RankedHeaders(tables[target])
       /\ \A j \in 1..(target - 1) : ~RankedHeaders(tables[j])
       /\ \A i \in 1..Len(tables) :
            (IsRankConsol(tables[i]) /\ \A j \in 1..(i - 1) : ~RankedHeaders(tables[j]))
              => target = i

\* a {"Rank", "Consol Assets"} table is returned from behind a bigger table
C1_Witness ==
  /\ pc = "selected"
  /\ Len(tables) = 2
  /\ target = 2
  /\ IsRankConsol(tables[2])
  /\ NRows(tables[1]) * NCols(tables[1]) > NRows(tables[2]) * NCols(tables[2])

\* the score of section 4.1: +2 rank, +2 consol / assets / asset, +1 location
p_asset == <<"a","s","s","e","t">>
Score(t) ==
  (IF AnyHeader(t, p_rank) THEN 2 ELSE 0)
  + (IF AnyHeader(t, p_consol) \/ AnyHeader(t, p_assets) \/ AnyHeader(t, p_asset) THEN 2 ELSE 0)
  + (IF AnyHeader(t, p_location) THEN 1 ELSE 0)

\* C2: selection returns the table with the highest score, the first of them
\* in input order when several share it (stated where some table scores
\* above zero, outside the degenerate fallback of C3).
C2_ReturnsHighestScore ==
  (pc = "selected" /\ \E i \in 1..Len(tables) : Score(tables[i]) > 0)
    => /\ \A j \in 1..Len(tables) : Score(tables[j]) <= Score(tables[target])
       /\ \A j \in 1..(target - 1) : Score(tables[j]) < Score(tables[target])

\* no header of t matches any of the three signals
NoQualifyingHeader(t) == Score(t) = 0

\* C3: when no table has a qualifying header, selection returns the table
\* with the greatest rowCount x columnCount, the first of them in input order
\* when several share it.
C3_FallbackFirstLargest ==
  (pc = "selected" /\ \A i \in 1..Len(tables) : NoQualifyingHeader(tables[i]))
    => /\ target \in 1..Len(tables)
       /\ \A j \in 1..Len(tables) :
            NRows(tables[j]) * NCols(tables[j]) <= NRows(tables[target]) * NCols(tables[target])
       /\ \A j \in 1..(target - 1) :
            NRows(tables[j]) * NCols(tables[j]) < NRows(tables[target]) * NCols(tables[target])

\* two different tables of equal cell count, neither with a qualifying
\* header, and the first is returned
C3_Witness ==
  /\ pc = "selected"
  /\ Len(tables) = 2
  /\ \A i \in 1..2 : NoQualifyingHeader(tables[i])
  /\ NCols(tables[1]) # NCols(tables[2])
  /\ NRows(tables[1]) * NCols(tables[1]) = NRows(tables[2]) * NCols(tables[2])
  /\ target = 1

\* what the run draws after the load: the widgets' panels
Panels ==
  {"logos", "banks_shown", "table", "total_assets", "median_assets", "selected_bank",
   "bar_chart", "histogram", "assets_not_detected"}

\* C4: on a page with zero tables the load fails instead of returning a
\* table, the caller shows the notice and stops, and nothing runs after it:
\* no table is picked, no frame is made, no widget, filter or panel follows.
C4_NoTablesStopsRun ==
  [][/\ (pc = "start" /\ tables = <<>>)
          => /\ pc' = "stopped"
             /\ "error" \in shown'
             /\ shown' \cap Panels = {}
             /\ target' = 0 /\ df' = NoTable /\ filtered' = NoTable
             /\ top_n_slider' = NoSlider
     /\ pc = "stopped" => UNCHANGED vars]_vars

\* the run that stopped on the notice
C4_Witness == pc = "stopped" /\ "error" \in shown /\ df = NoTable /\ shown \cap Panels = {}

\* the bound magnitude columns of the picked table, by position
MagnitudeCols ==
  {i \in 1..NCols(tables[target]) :
     \/ (Truthy(cols.assets) /\ Strip(tables[target].columns[i]) = cols.assets.s)
     \/ (Truthy(cols.dom_assets) /\ Strip(tables[target].columns[i]) = cols.dom_assets.s)}

\* a raw cell with no digit in it (a missing cell has none either)
NoDigit(v) == v.k = "nan" \/ (v.k = "str" /\ \A j \in 1..Len(v.s) : v.s[j] \notin Digits)

\* C5: a cell of a bound magnitude column whose text holds no digit becomes
\* NaN, not 0, and its row is kept.
C5_NoDigitIsNaN ==
  pc = "normalized"
    => /\ Len(df.rows) = Len(tables[target].rows)
       /\ \A r \in 1..Len(df.rows) :
            /\ df.rows[r].n = tables[target].rows[r].n
            /\ \A i \in MagnitudeCols :
                 NoDigit(tables[target].rows[r].cells[i]) => df.rows[r].cells[i] = NaN

\* a cell of points, commas and dashes, more than one character long, cleaned
C5_Witness ==
  /\ pc = "normalized"
  /\ \E r \in 1..Len(df.rows) : \E i \in MagnitudeCols :
       LET v == tables[target].rows[r].cells[i]
       IN /\ v.k = "str" /\ Len(v.s) >= 2 /\ NoDigit(v)
          /\ \E j \in 1..Len(v.s) : v.s[j] = "."
          /\ df.rows[r].cells[i] = NaN
          /\ df.rows[r].n > 0

\* C6: every record the normalisation returns has a non-empty entity name.
C6_NamesNonEmpty ==
  (pc = "normalized" /\ HasCol(df, n_Bank))
    => \A r \in 1..Len(df.rows) :
         LET v == df.rows[r].cells[ColIdx(df.columns, n_Bank)]
         IN df.rows[r].n > 0 => (v.k = "str" /\ Strip(v.s) # <<>>)

\* the frame has no consolidated assets at all: no such column, or only NaN
PrimaryAbsent(d) == ~HasCol(d, n_Assets) \/ ~AnyNotNa(d, n_Assets)

PrimaryCandidates == <<p_consol_assets, p_consolidated_assets, p_consol, p_assets>>

\* the binding by priority: the first header holding the highest-priority
\* candidate that any header holds, None when no header holds a candidate
ByPriority(columns, cands) ==
  LET Holds(i, k) == Contains(Lower(columns[i]), cands[k])
      present == {k \in 1..Len(cands) : \E i \in 1..Len(columns) : Holds(i, k)}
  IN IF present = {} THEN None
     ELSE LET k == CHOOSE x \in present : \A y \in present : x <= y
              i == CHOOSE x \in 1..Len(columns) :
                     Holds(x, k) /\ \A y \in 1..(x - 1) : ~Holds(y, k)
          IN Str(columns[i])

\* C8: each role is bound by candidate priority.
C8_BindsByPriority ==
  pc = "normalized"
    => LET hs == CopyStripped(tables[target]).columns
       IN /\ cols.assets = ByPriority(hs, PrimaryCandidates)
          /\ cols.rank = ByPriority(hs, <<p_rank>>)
          /\ cols.loc = ByPriority(hs, <<p_location>>)
          /\ cols.char = ByPriority(hs, <<p_charter>>)
          /\ cols.dom_assets = ByPriority(hs, <<p_domestic_assets>>)

\* C9: the returned frame has the entity-name column, and it is the first
\* raw column with its values.
C9_FirstColumnIsEntityName ==
  pc = "normalized"
    => /\ df.columns[1] = n_Bank
       /\ \A r \in 1..Len(df.rows) : df.rows[r].cells[1] = tables[target].rows[r].cells[1]

\* C10: once the sidebar has run, the Top N slider exists with
\* min 10 <= default 50 <= max min(200, row count).
C10_SliderBoundsConsistent ==
  pc \in {"sidebar", "filtered", "done", "crashed"}
    => /\ top_n_slider = [min_value |-> 10, max_value |-> Min(200, NRows(df)), value |-> 50]
       /\ top_n_slider.min_value <= top_n_slider.value
       /\ top_n_slider.value <= top_n_slider.max_value
====
